---- MODULE Spec2Model ----
(***************************************************************************)
(* Model of src/student-implementation.js: the podcast pipeline            *)
(* (generatePodcast) and the three exported stage functions (fetchNews,    *)
(* generateScript, generateAudio), as the source defines them.             *)
(*                                                                         *)
(* JavaScript values are records tagged with their type, so that null, ''  *)
(* and [] stay distinct and truthiness is computed as JavaScript does.     *)
(***************************************************************************)
EXTENDS Integers, Sequences, FiniteSets

\* ---------------------------------------------------------------- bounds
MaxArticles == 2
MaxTextLen == 2
MaxCalls == 2

\* ------------------------------------------------------- JavaScript values
JsNull == [type |-> "null"]
JsUndefined == [type |-> "undefined"]
JsArray(items) == [type |-> "array", items |-> items]
JsString(chars) == [type |-> "string", chars |-> chars]

\* !v for the value kinds used here: null, undefined and '' are falsy,
\* arrays (also empty ones) are truthy.
Falsy(v) ==
    \/ v.type = "null"
    \/ v.type = "undefined"
    \/ (v.type = "string" /\ Len(v.chars) = 0)

\* v.length of an array or a string
Length(v) == IF v.type = "array" THEN Len(v.items) ELSE Len(v.chars)

\* ------------------------------------------------------------- input sets
Unset == "<unset>"
Credentials == {"NEWSAPI_KEY", "OPENAI_API_KEY", "ELEVENLABS_API_KEY"}
EnvNames == Credentials \cup {"PODCAST_VOICE_ID"}
EnvValues(n) == IF n = "PODCAST_VOICE_ID" THEN {Unset, "customVoice"}
                                          ELSE {Unset, "secret"}
Environments ==
    {e \in [EnvNames -> {Unset, "customVoice", "secret"}] :
        \A n \in EnvNames : e[n] \in EnvValues(n)}

Titles == {"A"}
SeqsUpTo(S, n) == UNION {[1..k -> S] : k \in 0..n}
ArticleLists == {JsArray(s) : s \in SeqsUpTo([title : Titles], MaxArticles)}
Texts == {JsString(s) : s \in SeqsUpTo({"x"}, MaxTextLen)}

\* What each remote service would answer if it were asked: a failure, or a
\* payload (articles, generated text, the path of the saved audio).
Failure == [ok |-> FALSE, data |-> JsNull]
Answer(d) == [ok |-> TRUE, data |-> d]
NewsAnswers == {Failure} \cup {Answer(a) : a \in ArticleLists}
TextAnswers == {Failure} \cup {Answer(t) : t \in Texts}
AudioAnswers == {Failure, Answer(JsString(<<"p">>))}

VARIABLES
    env,            \* process.env: the three credentials and the voice id
    remote,         \* answers the three remote services would give
    pc,             \* "idle" | "validated" | "exited" | "returned"
    calls,          \* stage functions invoked so far: [fn, arg, ret, err]
    voiceId,        \* voice chosen by the latest generateAudio
    files,          \* files written: set of [name, content]
    reported,       \* names printed as missing, in order
    errorMessage,   \* message logged by generatePodcast's catch
    exitCode,       \* -1 while the process runs, then 0 or 1
    result,         \* value generatePodcast returned
    articles,       \* generatePodcast's local
    script,         \* generatePodcast's local
    audioFilePath   \* generatePodcast's local

vars == <<env, remote, pc, calls, voiceId, files, reported, errorMessage,
          exitCode, result, articles, script, audioFilePath>>

NoError == "<none>"
NoVoice == "<none>"
NoResult == [success |-> FALSE]
Running == 0 - 1

\* -------------------------------------------------------- stage functions
DefaultVoice == "21m00Tcm4TlvDq8ikWAM"
ScriptFile == "podcast-script.txt"

\* fetchNews(): no request is made, the articles are the literal [].
fetchNews ==
    LET fetched == JsArray(<< >>)
    IN  [threw |-> FALSE, value |-> fetched]

\* generateScript(articles): no request is made, the script is the literal
\* '', nothing is saved.
generateScript(articlesArg) ==
    LET text == JsString(<< >>)
    IN  [threw |-> FALSE, value |-> text, written |-> {}]

\* generateAudio(text): the voice is the literal default, no request is
\* made, the path is the literal ''.
generateAudio(text) ==
    LET voice == DefaultVoice
        filePath == JsString(<< >>)
    IN  [threw |-> FALSE, value |-> filePath, voice |-> voice]

\* The catch blocks of the three stage functions.
StageError(fn) ==
    CASE fn = "fetchNews" -> "Failed to fetch news articles"
      [] fn = "generateScript" -> "Failed to generate podcast script"
      [] fn = "generateAudio" -> "Failed to generate audio"

\* What the caller of a stage function sees thrown, if anything.
Rejection(fn, r) == IF r.threw THEN StageError(fn) ELSE NoError

\* ------------------------------------------------------- generatePodcast
requiredVarsShort == <<"NEWSAPI_KEY", "OPENAI_API_KEY">>
requiredVars == <<"NEWSAPI_KEY", "OPENAI_API_KEY", "ELEVENLABS_API_KEY">>

\* helpers.validateEnvironmentVariables: the names that have no value.
validateEnvironmentVariables(names) ==
    LET missing == SelectSeq(names, LAMBDA v : env[v] = Unset)
    IN  [valid |-> Len(missing) = 0, missing |-> missing]

NoArticlesLengthOnly(a) == a.type = "array" /\ Length(a) = 0
NoArticles(a) == Falsy(a) \/ Length(a) = 0
NoScript(s) == Falsy(s) \/ Length(s) = 0
NoAudio(p) == Falsy(p)

RunResult(a, s, p) ==
    [success |-> TRUE, articlesCount |-> Length(a), script |-> s,
     scriptLength |-> Length(s), audioFile |-> p]

\* catch (error) { ...; process.exit(1) }
CatchExitsZero(message) == [errorMessage |-> message, exitCode |-> 0]
Catch(message) == [errorMessage |-> message, exitCode |-> 1]

\* The try block after validation: the three locals are the literal null.
Stages ==
    LET a == JsNull
        s == JsNull
        p == JsNull
    IN  IF NoArticles(a)
        THEN [articles |-> a, script |-> JsUndefined,
              audioFilePath |-> JsUndefined,
              thrown |-> "No articles fetched", value |-> NoResult]
        ELSE IF NoScript(s)
        THEN [articles |-> a, script |-> s, audioFilePath |-> JsUndefined,
              thrown |-> "No script generated", value |-> NoResult]
        ELSE IF NoAudio(p)
        THEN [articles |-> a, script |-> s, audioFilePath |-> p,
              thrown |-> "No audio file generated", value |-> NoResult]
        ELSE [articles |-> a, script |-> s, audioFilePath |-> p,
              thrown |-> NoError, value |-> RunResult(a, s, p)]

\* ------------------------------------------------------------------ Init
Init ==
    /\ env \in Environments
    /\ remote \in [news : NewsAnswers, openai : TextAnswers,
                   eleven : AudioAnswers]
    /\ pc = "idle"
    /\ calls = << >>
    /\ voiceId = NoVoice
    /\ files = {}
    /\ reported = << >>
    /\ errorMessage = NoError
    /\ exitCode = Running
    /\ result = NoResult
    /\ articles = JsUndefined
    /\ script = JsUndefined
    /\ audioFilePath = JsUndefined

\* --------------------------------------------------------------- actions
\* A caller that imported the module invokes fetchNews().
CallFetchNews ==
    /\ pc = "idle"
    /\ Len(calls) < MaxCalls
    /\ LET r == fetchNews
       IN  calls' = Append(calls, [fn |-> "fetchNews", arg |-> JsUndefined,
                                   ret |-> r.value,
                                   err |-> Rejection("fetchNews", r)])
    /\ UNCHANGED <<env, remote, pc, voiceId, files, reported, errorMessage,
                   exitCode, result, articles, script, audioFilePath>>

\* A caller that imported the module invokes generateScript(articles).
CallGenerateScript ==
    /\ pc = "idle"
    /\ Len(calls) < MaxCalls
    /\ \E a \in ArticleLists :
         LET r == generateScript(a)
         IN  /\ calls' = Append(calls, [fn |-> "generateScript", arg |-> a,
                                        ret |-> r.value,
                                        err |-> Rejection("generateScript", r)])
             /\ files' = files \cup r.written
    /\ UNCHANGED <<env, remote, pc, voiceId, reported, errorMessage,
                   exitCode, result, articles, script, audioFilePath>>

\* A caller that imported the module invokes generateAudio(text).
CallGenerateAudio ==
    /\ pc = "idle"
    /\ Len(calls) < MaxCalls
    /\ \E t \in Texts :
         LET r == generateAudio(t)
         IN  /\ calls' = Append(calls, [fn |-> "generateAudio", arg |-> t,
                                        ret |-> r.value,
                                        err |-> Rejection("generateAudio", r)])
             /\ voiceId' = r.voice
    /\ UNCHANGED <<env, remote, pc, files, reported, errorMessage,
                   exitCode, result, articles, script, audioFilePath>>

\* generatePodcast(), run as the program: the validation of the environment
\* and, when a name is missing, the report and process.exit(1).
ValidateEnvironment ==
    /\ pc = "idle"
    /\ calls = << >>
    /\ LET validation == validateEnvironmentVariables(requiredVars)
       IN  IF ~validation.valid
           THEN /\ reported' = validation.missing
                /\ exitCode' = 1
                /\ pc' = "exited"
           ELSE /\ pc' = "validated"
                /\ UNCHANGED <<reported, exitCode>>
    /\ UNCHANGED <<env, remote, calls, voiceId, files, errorMessage, result,
                   articles, script, audioFilePath>>

\* generatePodcast(), the rest of the try block and the catch block.
RunStages ==
    /\ pc = "validated"
    /\ LET o == Stages
       IN  /\ articles' = o.articles
           /\ script' = o.script
           /\ audioFilePath' = o.audioFilePath
           /\ IF o.thrown # NoError
              THEN /\ errorMessage' = Catch(o.thrown).errorMessage
                   /\ exitCode' = Catch(o.thrown).exitCode
                   /\ pc' = "exited"
                   /\ UNCHANGED result
              ELSE /\ result' = o.value
                   /\ exitCode' = 0
                   /\ pc' = "returned"
                   /\ UNCHANGED errorMessage
    /\ UNCHANGED <<env, remote, calls, voiceId, files, reported>>

Next ==
    \/ CallFetchNews
    \/ CallGenerateScript
    \/ CallGenerateAudio
    \/ ValidateEnvironment
    \/ RunStages

Spec == Init /\ [][Next]_vars

\* ---------------------------------------------------------------- claims
Finished == pc \in {"exited", "returned"}
MissingCredentials == {v \in Credentials : env[v] = Unset}
Range(f) == {f[i] : i \in DOMAIN f}
EmptyOrAbsent(v) ==
    \/ v.type \in {"null", "undefined"}
    \/ (v.type = "array" /\ v.items = << >>)
    \/ (v.type = "string" /\ v.chars = << >>)
LastCall == calls[Len(calls)]
Returned(fn) ==
    /\ pc = "idle"
    /\ calls # << >>
    /\ LastCall.fn = fn
    /\ LastCall.err = NoError

\* The remote services are all able to answer with non-empty payloads.
NewsAvailable == remote.news.ok /\ ~EmptyOrAbsent(remote.news.data)
TextAvailable == remote.openai.ok /\ ~EmptyOrAbsent(remote.openai.data)
AudioAvailable == remote.eleven.ok /\ ~EmptyOrAbsent(remote.eleven.data)

\* C1: with every credential present and the three services answering with
\* non-empty payloads, a finished run has returned a Run Result with
\* success = true, articlesCount = the number of fetched articles, script and
\* scriptLength = the generated text and its length, audioFile = the path of
\* the synthesized audio.
C1_SuccessfulRun ==
    (Finished /\ MissingCredentials = {}
        /\ NewsAvailable /\ TextAvailable /\ AudioAvailable)
    => /\ pc = "returned"
       /\ result.success
       /\ result.articlesCount = Length(remote.news.data)
       /\ result.script = remote.openai.data
       /\ result.scriptLength = Length(remote.openai.data)
       /\ result.audioFile = remote.eleven.data

\* C2: when a required credential is missing, the run ends with the process
\* terminated, no stage function was invoked, and the names reported are
\* exactly the missing credentials, each once.
C2_MissingCredentialsReported ==
    (Finished /\ MissingCredentials # {})
    => /\ pc = "exited"
       /\ exitCode = 1
       /\ calls = << >>
       /\ articles = JsUndefined
       /\ Range(reported) = MissingCredentials
       /\ Len(reported) = Cardinality(MissingCredentials)

C2_Witness ==
    /\ pc = "exited"
    /\ Len(reported) = 2
    /\ env["OPENAI_API_KEY"] # Unset

\* C3: when the article collection the run holds after the fetch step is
\* empty or absent, the run aborts with "No articles fetched" and does not
\* invoke the Script Generator; the Script Generator is invoked by a run only
\* with a non-empty article list.
C3_NoArticlesAborts ==
    /\ (Finished /\ articles # JsUndefined /\ EmptyOrAbsent(articles))
       => /\ pc = "exited"
          /\ errorMessage = "No articles fetched"
          /\ script = JsUndefined
          /\ \A i \in DOMAIN calls : calls[i].fn # "generateScript"
    /\ (pc # "idle")
       => \A i \in DOMAIN calls :
            calls[i].fn = "generateScript" => ~EmptyOrAbsent(calls[i].arg)

C3_Witness ==
    /\ pc = "exited"
    /\ articles = JsNull
    /\ errorMessage = "No articles fetched"
    /\ calls = << >>

\* C4: with the credentials present and articles available, when the text
\* service yields an empty string the run aborts with "No script generated"
\* and the Audio Synthesizer is not invoked.
C4_NoScriptAborts ==
    (Finished /\ MissingCredentials = {} /\ NewsAvailable
        /\ remote.openai.ok /\ EmptyOrAbsent(remote.openai.data))
    => /\ pc = "exited"
       /\ errorMessage = "No script generated"
       /\ \A i \in DOMAIN calls : calls[i].fn # "generateAudio"

\* C5: with the credentials present and the first two stages able to
\* succeed, when the speech service fails the run aborts with the fixed
\* message "Failed to generate audio" and exit code 1.
C5_AudioFailureMessage ==
    (Finished /\ MissingCredentials = {} /\ NewsAvailable /\ TextAvailable
        /\ ~remote.eleven.ok)
    => /\ pc = "exited"
       /\ exitCode = 1
       /\ errorMessage = "Failed to generate audio"

\* C6: with the credentials present and the first two stages able to
\* succeed, a run whose Audio Synthesizer result is empty or absent aborts
\* with "No audio file generated", and a run is reported successful only with
\* a non-empty audio reference.
C6_NoAudioAborts ==
    /\ (Finished /\ MissingCredentials = {} /\ NewsAvailable /\ TextAvailable
          /\ EmptyOrAbsent(generateAudio(remote.openai.data).value))
       => /\ pc = "exited"
          /\ errorMessage = "No audio file generated"
    /\ result.success => ~EmptyOrAbsent(result.audioFile)

\* C7: a finished run either returned the Run Result with exit code 0 or
\* terminated with exit code 1 and no result; it has exit code 1 whenever a
\* credential was missing or a stage output was empty or absent or an error
\* was caught, and never when all three stage outputs were non-empty.
StageFailed ==
    \/ errorMessage # NoError
    \/ (articles # JsUndefined /\ EmptyOrAbsent(articles))
    \/ (script # JsUndefined /\ EmptyOrAbsent(script))
    \/ (audioFilePath # JsUndefined /\ EmptyOrAbsent(audioFilePath))
AllStagesSucceeded ==
    /\ ~EmptyOrAbsent(articles)
    /\ ~EmptyOrAbsent(script)
    /\ ~EmptyOrAbsent(audioFilePath)
C7_ExitCodes ==
    Finished
    => /\ \/ (pc = "returned" /\ result.success /\ exitCode = 0)
          \/ (pc = "exited" /\ ~result.success /\ exitCode = 1)
       /\ (MissingCredentials # {} \/ StageFailed) => exitCode = 1
       /\ AllStagesSucceeded => exitCode # 1

C7_Witness ==
    /\ pc = "exited"
    /\ exitCode = 1
    /\ MissingCredentials = {}
    /\ StageFailed
    /\ ~result.success

\* C8: a generateAudio call that returned used the voice PODCAST_VOICE_ID
\* when that value is set, and the default voice only when it is not set.
C8_VoiceFromEnvironment ==
    Returned("generateAudio")
    => voiceId = (IF env["PODCAST_VOICE_ID"] # Unset
                  THEN env["PODCAST_VOICE_ID"] ELSE DefaultVoice)

\* C9: when generateScript has returned a script, podcast-script.txt holds
\* that same text.
C9_ScriptPersisted ==
    Returned("generateScript")
    => [name |-> ScriptFile, content |-> LastCall.ret] \in files

\* C10: a finished run that passed validation invoked the News Fetcher, and
\* its invocations are a prefix of News Fetcher, Script Generator, Audio
\* Synthesizer, each at most once, each later stage given exactly the value
\* the previous one returned, and none after a stage failed.
StageOrder == <<"fetchNews", "generateScript", "generateAudio">>
C10_StrictSequence ==
    (Finished /\ MissingCredentials = {})
    => /\ Len(calls) \in 1..3
       /\ \A i \in DOMAIN calls :
            /\ calls[i].fn = StageOrder[i]
            /\ i > 1 => calls[i].arg = calls[i - 1].ret
            /\ i < Len(calls) => /\ calls[i].err = NoError
                                 /\ ~EmptyOrAbsent(calls[i].ret)

====
